---- MODULE Spec2Model ----
(***************************************************************************)
(* Model of the generic Dijkstra engine of naycoma/dijkstra                *)
(* (src/dijkstra.go): the heap-backed frontier, the search loop, the path  *)
(* reconstruction walk and the NotReachableError diagnostics.              *)
(*                                                                         *)
(* Keys K are the integers 1..NumNodes, costs R are integers ordered by    *)
(* "<" and the accumulator adds a per-transition weight, as the callbacks  *)
(* of src/dijkstra_test.go and src/sample/sample.go do.                    *)
(***************************************************************************)
EXTENDS Integers, Sequences, FiniteSets, TLC

\* ------------------------------------------------------------- bounds
NumNodes == 3
MaxEdges == 3
MaxWeight == 1
InitialCost == 1
MaxSupplied == 2
MaxHeap == 5
MaxHeapCost == 3
MaxDecrease == 2

\* ------------------------------------------------------------- types
Nodes == 1..NumNodes

\* Prev *K: the nil pointer (keys are 1..NumNodes, so 0 is no key).
nil == 0

\* The zero value of K, returned as min by filterMinBy on an empty list.
ZeroKey == 0

\* error(nil)
NoError == [kind |-> "nil"]

\* make(map[K]NodeCost[K, R]): the map with no key.
EmptyMap == <<>>

\* current, prev, cost before the first open.Pop()
NoEntry == [Key |-> nil, Prev |-> nil, Cost |-> 0]

VARIABLES
    edges,      \* Options.Edges: key -> list of candidate neighbours
    weight,     \* the data Options.Accumulator closes over: admissible (from, to) -> added cost
    start,      \* argument start of Dijkstra
    initial,    \* argument initial of Dijkstra
    open,       \* heapNodes.nodes of the frontier, a list of NodeCost
    popped,     \* current, prev, cost of the latest loop iteration
    edgeCalls,  \* per key, the calls edges(key) of the current run
    accCalls,   \* the number of calls of accumulator in the current run
    accArgs,    \* the arguments (agg, from, to) of those calls
    pushCalls,  \* the number of calls open.Push of the current run
    costs,      \* the cost map being built / returned / supplied to PathResolve
    pc,         \* "init" | "loop" | "done" | "resolve" | "returned" | "heap"
    origin,     \* "dijkstra": costs comes from a run; "supplied": any caller-made map;
                \* "heap": a priorityNodes used on its own
    run,        \* 1: first run; 2: an independent second run
    costs1,     \* the cost map returned by the first run (kept by the caller)
    goal,       \* argument goal of the current / last PathResolve call
    path,       \* local path of PathResolve, then its first result
    err         \* second result of PathResolve

vars == <<edges, weight, start, initial, open, popped, edgeCalls, accCalls, accArgs, pushCalls, costs, pc, origin, run, costs1, goal, path, err>>

config == <<edges, weight, start, initial>>

calls == <<edgeCalls, accCalls, accArgs, pushCalls>>

\* No callback has been called.
NoCalls == [k \in DOMAIN edges |-> 0]

\* ------------------------------------------------------------- callbacks
\* Less: func(i, j Cost) bool { return i < j }
less(i, j) == i < j

\* Accumulator: cost, ok := graph[...]; return agg + cost, ok
accumulator(agg, from, to) ==
    IF <<from, to>> \in DOMAIN weight
    THEN [next |-> agg + weight[<<from, to>>], ok |-> TRUE]
    ELSE [next |-> agg, ok |-> FALSE]

\* ------------------------------------------------------------- frontier
\* Faulty variant of Less: the operands exchanged, pq.less(nodes[j].Cost, nodes[i].Cost).
LessSwapped(nodes, i, j) == less(nodes[j + 1].Cost, nodes[i + 1].Cost)

\* heapNodes.Less (indices are 0-based as in the source)
Less(nodes, i, j) == less(nodes[i + 1].Cost, nodes[j + 1].Cost)

\* heapNodes.Swap
Swap(nodes, i, j) == [nodes EXCEPT ![i + 1] = nodes[j + 1], ![j + 1] = nodes[i + 1]]

\* container/heap: parent index, (j - 1) / 2 with Go's truncating division
parent(j) == IF j = 0 THEN 0 ELSE (j - 1) \div 2

\* Faulty variant of up: the appended entry is left where it is.
upNone(nodes, j) == nodes

RECURSIVE up(_, _)
\* container/heap up(h, j), driven by heapNodes.Less and heapNodes.Swap
up(nodes, j) ==
    LET i == parent(j) IN
    IF i = j \/ ~Less(nodes, j, i) THEN nodes ELSE up(Swap(nodes, i, j), i)

RECURSIVE downLeftOnly(_, _, _)
\* Faulty variant of down: the right child is never looked at.
downLeftOnly(nodes, i, n) ==
    LET j == 2 * i + 1 IN
    IF j >= n THEN nodes
    ELSE IF ~Less(nodes, j, i) THEN nodes ELSE downLeftOnly(Swap(nodes, i, j), j, n)

RECURSIVE down(_, _, _)
\* container/heap down(h, i, n), driven by heapNodes.Less and heapNodes.Swap
down(nodes, i, n) ==
    LET j1 == 2 * i + 1 IN
    IF j1 >= n THEN nodes
    ELSE LET j == IF j1 + 1 < n /\ Less(nodes, j1 + 1, j1) THEN j1 + 1 ELSE j1 IN
         IF ~Less(nodes, j, i) THEN nodes ELSE down(Swap(nodes, i, j), j, n)

\* priorityNodes.Push: heap.Push = heapNodes.Push (append) then up(Len - 1)
Push(nodes, current, prev, cost) ==
    up(Append(nodes, [Key |-> current, Prev |-> prev, Cost |-> cost]), Len(nodes))

\* Faulty variant of Pop: heapNodes.Pop called directly, the last entry is returned.
PopLast(nodes) ==
    [item |-> nodes[Len(nodes)], rest |-> SubSeq(nodes, 1, Len(nodes) - 1)]

\* Faulty variant of Pop: heapNodes.Pop does not cut the list.
PopNoShrink(nodes) ==
    LET n == Len(nodes) - 1
        s == down(Swap(nodes, 0, n), 0, n)
    IN [item |-> s[n + 1], rest |-> s]

\* priorityNodes.Pop: heap.Pop = Swap(0, n), down(0, n), heapNodes.Pop (cut the last)
Pop(nodes) ==
    LET n == Len(nodes) - 1
        s == down(Swap(nodes, 0, n), 0, n)
    IN [item |-> s[n + 1], rest |-> SubSeq(s, 1, n)]

\* priorityNodes.Empty
Empty(nodes) == Len(nodes) = 0

\* Some independent run breaks ties its own way: any entry that no other entry
\* is less than may be the one priorityNodes.Pop returns.
PopAnyMin(nodes) ==
    { [item |-> nodes[i],
       rest |-> SubSeq(nodes, 1, i - 1) \o SubSeq(nodes, i + 1, Len(nodes))] :
      i \in { k \in 1..Len(nodes) :
              \A m \in 1..Len(nodes) : ~less(nodes[m].Cost, nodes[k].Cost) } }

\* The results open.Pop() can give: the heap's in the first run, any
\* minimum-cost entry in the second.
PopChoices(nodes) == IF run = 1 THEN {Pop(nodes)} ELSE PopAnyMin(nodes)

\* pq.Push(start, nil, cost) on a priorityNodes used on its own.
HeapPush ==
    /\ pc = "heap"
    /\ Len(open) < MaxHeap
    /\ \E cost \in 0..MaxHeapCost : open' = Push(open, start, nil, cost)
    /\ UNCHANGED <<config, popped, costs, pc, origin, calls, run, costs1, goal, path, err>>

\* if !pq.Empty() { pq.Pop() } on a priorityNodes used on its own.
HeapPop ==
    /\ pc = "heap"
    /\ ~Empty(open)
    /\ LET p == Pop(open)
       IN /\ open' = p.rest
          /\ popped' = p.item
    /\ UNCHANGED <<config, costs, pc, origin, calls, run, costs1, goal, path, err>>

\* ------------------------------------------------------------- Dijkstra
RECURSIVE expandNilPrev(_, _, _, _)
\* Faulty variant of expand: open.Push(dest, nil, destCost).
expandNilPrev(nodes, current, cost, dests) ==
    IF dests = <<>> THEN nodes
    ELSE LET dest == Head(dests)
             acc == accumulator(cost, current, dest)
         IN expandNilPrev(IF acc.ok THEN Push(nodes, dest, nil, acc.next) ELSE nodes,
                          current, cost, Tail(dests))

RECURSIVE expandIgnoreOk(_, _, _, _)
\* Faulty variant of expand: ok is dropped, every candidate is pushed.
expandIgnoreOk(nodes, current, cost, dests) ==
    IF dests = <<>> THEN nodes
    ELSE LET dest == Head(dests)
             acc == accumulator(cost, current, dest)
         IN expandIgnoreOk(Push(nodes, dest, current, acc.next),
                           current, cost, Tail(dests))

RECURSIVE expandSkipRecorded(_, _, _, _)
\* Faulty variant of expand: a neighbour that already has a record is not pushed.
expandSkipRecorded(nodes, current, cost, dests) ==
    IF dests = <<>> THEN nodes
    ELSE LET dest == Head(dests)
             acc == accumulator(cost, current, dest)
         IN expandSkipRecorded(
                IF acc.ok /\ dest \notin DOMAIN costs /\ dest # current
                THEN Push(nodes, dest, current, acc.next) ELSE nodes,
                current, cost, Tail(dests))

RECURSIVE expand(_, _, _, _)
\* for _, dest := range edges(current) { if destCost, ok := accumulator(...); ok { open.Push(...) } }
expand(nodes, current, cost, dests) ==
    IF dests = <<>> THEN nodes
    ELSE LET dest == Head(dests)
             acc == accumulator(cost, current, dest)
         IN expand(IF acc.ok THEN Push(nodes, dest, current, acc.next) ELSE nodes,
                   current, cost, Tail(dests))

\* Faulty variant of DijkstraCall: open.Push(start, &start, initial).
DijkstraCallSelfPrev ==
    /\ pc = "init"
    /\ open' = Push(<<>>, start, start, initial)
    /\ pushCalls' = pushCalls + 1
    /\ costs' = EmptyMap
    /\ pc' = "loop"
    /\ UNCHANGED <<config, popped, origin, edgeCalls, accCalls, accArgs, run, costs1, goal, path, err>>

\* Faulty variant of DijkstraCall: the seed is pushed only if accumulator accepts
\* a transition from start into start.
DijkstraCallAccumulated ==
    /\ pc = "init"
    /\ LET acc == accumulator(initial, start, start)
       IN open' = IF acc.ok THEN Push(<<>>, start, nil, acc.next) ELSE <<>>
    /\ accCalls' = accCalls + 1
    /\ accArgs' = accArgs \cup {<<initial, start, start>>}
    /\ pushCalls' = pushCalls + Len(open')
    /\ costs' = EmptyMap
    /\ pc' = "loop"
    /\ UNCHANGED <<config, popped, origin, edgeCalls, run, costs1, goal, path, err>>

\* open := newPriorityNodes(less); costs = make(map); open.Push(start, nil, initial)
DijkstraCall ==
    /\ pc = "init"
    /\ open' = Push(<<>>, start, nil, initial)
    /\ pushCalls' = pushCalls + 1
    /\ costs' = EmptyMap
    /\ pc' = "loop"
    /\ UNCHANGED <<config, popped, origin, edgeCalls, accCalls, accArgs, run, costs1, goal, path, err>>

\* One iteration of the loop that finds current without a record: record it, expand it.
Finalize ==
    /\ pc = "loop"
    /\ ~Empty(open)
    /\ \E p \in PopChoices(open) :
         LET current == p.item.Key
             prev == p.item.Prev
             cost == p.item.Cost
         IN /\ current \notin DOMAIN costs
            /\ costs' = costs @@ (current :> [Key |-> current, Cost |-> cost, Prev |-> prev])
            /\ open' = expand(p.rest, current, cost, edges[current])
            /\ popped' = p.item
            /\ edgeCalls' = [edgeCalls EXCEPT ![current] = @ + 1]
            /\ accCalls' = accCalls + Len(edges[current])
            /\ accArgs' = accArgs \cup { <<cost, current, edges[current][i]>> :
                                          i \in 1..Len(edges[current]) }
            /\ pushCalls' = pushCalls + (Len(open') - Len(p.rest))
    /\ UNCHANGED <<config, pc, origin, run, costs1, goal, path, err>>

\* Faulty variant of DiscardStale: the record is written before costs[current] is looked up.
DiscardStaleOverwrite ==
    /\ pc = "loop"
    /\ ~Empty(open)
    /\ \E p \in PopChoices(open) :
         /\ p.item.Key \in DOMAIN costs
         /\ costs' = [costs EXCEPT ![p.item.Key] =
                        [Key |-> p.item.Key, Cost |-> p.item.Cost, Prev |-> p.item.Prev]]
         /\ open' = p.rest
         /\ popped' = p.item
    /\ UNCHANGED <<config, pc, origin, calls, run, costs1, goal, path, err>>

\* Faulty variant of DiscardStale: an entry whose state has a record is expanded again.
DiscardStaleExpand ==
    /\ pc = "loop"
    /\ ~Empty(open)
    /\ \E p \in PopChoices(open) :
         /\ p.item.Key \in DOMAIN costs
         /\ open' = expand(p.rest, p.item.Key, p.item.Cost, edges[p.item.Key])
         /\ popped' = p.item
         /\ edgeCalls' = [edgeCalls EXCEPT ![p.item.Key] = @ + 1]
         /\ accCalls' = accCalls + Len(edges[p.item.Key])
         /\ accArgs' = accArgs \cup { <<p.item.Cost, p.item.Key, edges[p.item.Key][i]>> :
                                       i \in 1..Len(edges[p.item.Key]) }
         /\ pushCalls' = pushCalls + (Len(open') - Len(p.rest))
    /\ UNCHANGED <<config, costs, pc, origin, run, costs1, goal, path, err>>

\* One iteration of the loop that finds current already recorded: continue.
DiscardStale ==
    /\ pc = "loop"
    /\ ~Empty(open)
    /\ \E p \in PopChoices(open) :
         /\ p.item.Key \in DOMAIN costs
         /\ open' = p.rest
         /\ popped' = p.item
    /\ UNCHANGED <<config, costs, pc, origin, calls, run, costs1, goal, path, err>>

\* The loop condition fails: return costs (the loop's locals are gone).
Return ==
    /\ pc = "loop"
    /\ Empty(open)
    /\ pc' = "done"
    /\ popped' = NoEntry
    /\ UNCHANGED <<config, open, costs, origin, calls, run, costs1, goal, path, err>>

\* The caller keeps the first cost map and calls Dijkstra again with the same arguments.
SecondRun ==
    /\ pc = "done"
    /\ origin = "dijkstra"
    /\ run = 1
    /\ run' = 2
    /\ costs1' = costs
    /\ open' = Push(<<>>, start, nil, initial)
    /\ costs' = EmptyMap
    /\ popped' = NoEntry
    /\ edgeCalls' = NoCalls
    /\ accCalls' = 0
    /\ accArgs' = {}
    /\ pushCalls' = 1
    /\ pc' = "loop"
    /\ UNCHANGED <<config, origin, goal, path, err>>

\* ------------------------------------------------------------- NotReachableError
\* getKeys: the keys of the map in the order the map iteration yields them, which
\* Go leaves unspecified: every order is possible.
getKeys(collection) ==
    LET D == DOMAIN collection
    IN { f \in [1..Cardinality(D) -> D] : \A i, j \in 1..Cardinality(D) : i # j => f[i] # f[j] }

RECURSIVE filterMinByNoOk(_, _, _, _, _)
\* Faulty variant of filterMinBy: the first item is taken without ok = true.
filterMinByNoOk(collection, cm, index, min, ok) ==
    IF index > Len(collection) THEN [min |-> min, ok |-> ok]
    ELSE LET item == collection[index] IN
         IF item \notin DOMAIN cm THEN filterMinByNoOk(collection, cm, index + 1, min, ok)
         ELSE IF ~ok THEN filterMinByNoOk(collection, cm, index + 1, item, ok)
         ELSE IF less(cm[item].Cost, cm[min].Cost)
              THEN filterMinByNoOk(collection, cm, index + 1, item, ok)
              ELSE filterMinByNoOk(collection, cm, index + 1, min, ok)

RECURSIVE filterMinBy(_, _, _, _, _)
\* filterMinBy from position index on, with the predicate and the less that
\* minCostNode passes (a key of cm; less on the recorded costs).
filterMinBy(collection, cm, index, min, ok) ==
    IF index > Len(collection) THEN [min |-> min, ok |-> ok]
    ELSE LET item == collection[index] IN
         IF item \notin DOMAIN cm THEN filterMinBy(collection, cm, index + 1, min, ok)
         ELSE IF ~ok THEN filterMinBy(collection, cm, index + 1, item, TRUE)
         ELSE IF less(cm[item].Cost, cm[min].Cost)
              THEN filterMinBy(collection, cm, index + 1, item, ok)
              ELSE filterMinBy(collection, cm, index + 1, min, ok)

\* Faulty variant of minCostNode: the first key is returned, costs not compared.
minCostNodeFirst(nodes, cm) ==
    IF Len(nodes) = 0 THEN [min |-> ZeroKey, ok |-> FALSE]
    ELSE [min |-> nodes[1], ok |-> TRUE]

minCostNode(nodes, cm) == filterMinBy(nodes, cm, 1, ZeroKey, FALSE)

\* The errors newNotReachableError(costs, less, goal) can build.
newNotReachableError(cm, g) ==
    { LET r == minCostNode(keys, cm)
      IN [kind |-> "NotReachable", Costs |-> cm, Start |-> r.min, Goal |-> g,
          StartingUnknown |-> ~r.ok] : keys \in getKeys(cm) }

\* ------------------------------------------------------------- PathResolve
\* The longest path the walk is followed to (a supplied map may have a Prev cycle).
MaxPath == Cardinality(DOMAIN edges) + 1

\* Faulty variant of PathResolveCall: a missing goal returns nil, nil.
PathResolveCallNoError(g) ==
    /\ pc \in {"done", "returned"}
    /\ goal' = g
    /\ IF g \notin DOMAIN costs
       THEN /\ path' = <<>>
            /\ err' = NoError
            /\ pc' = "returned"
       ELSE /\ path' = <<g>>
            /\ err' = NoError
            /\ pc' = "resolve"
    /\ UNCHANGED <<config, open, popped, costs, origin, calls, run, costs1>>

\* Faulty variant of PathResolveCall: the query starts the search again.
PathResolveCallSearchAgain(g) ==
    /\ pc \in {"done", "returned"}
    /\ goal' = g
    /\ open' = Push(<<>>, start, nil, initial)
    /\ costs' = EmptyMap
    /\ popped' = NoEntry
    /\ edgeCalls' = NoCalls
    /\ accCalls' = 0
    /\ accArgs' = {}
    /\ pushCalls' = 1
    /\ pc' = "loop"
    /\ UNCHANGED <<config, origin, run, costs1, path, err>>

\* PathResolve(costs, g) up to the first evaluation of the loop.
PathResolveCall(g) ==
    /\ pc \in {"done", "returned"}
    /\ goal' = g
    /\ IF g \notin DOMAIN costs
       THEN /\ path' = <<>>
            /\ err' \in newNotReachableError(costs, g)
            /\ pc' = "returned"
       ELSE /\ path' = <<g>>
            /\ err' = NoError
            /\ pc' = "resolve"
    /\ UNCHANGED <<config, open, popped, costs, origin, calls, run, costs1>>

\* Faulty variant of PathResolveStep: the walk appends, the path comes out goal first.
PathResolveStepReversed ==
    /\ pc = "resolve"
    /\ Len(path) <= MaxPath
    /\ LET current == path[Len(path)] IN
       IF current \notin DOMAIN costs
       THEN /\ path' = <<>>
            /\ err' \in newNotReachableError(costs, goal)
            /\ pc' = "returned"
       ELSE IF costs[current].Prev = nil
       THEN /\ pc' = "returned"
            /\ UNCHANGED <<path, err>>
       ELSE /\ path' = Append(path, costs[current].Prev)
            /\ UNCHANGED <<pc, err>>
    /\ UNCHANGED <<config, open, popped, costs, origin, calls, run, costs1, goal>>

\* Faulty variant of PathResolveStep: a key without a record is read as the zero
\* NodeCost, whose Prev is nil.
PathResolveStepNoLookup ==
    /\ pc = "resolve"
    /\ Len(path) <= MaxPath
    /\ LET current == path[1] IN
       IF current \notin DOMAIN costs \/ costs[current].Prev = nil
       THEN /\ pc' = "returned"
            /\ UNCHANGED <<path, err>>
       ELSE /\ path' = <<costs[current].Prev>> \o path
            /\ UNCHANGED <<pc, err>>
    /\ UNCHANGED <<config, open, popped, costs, origin, calls, run, costs1, goal>>

\* One iteration of the for loop of PathResolve.
PathResolveStep ==
    /\ pc = "resolve"
    /\ Len(path) <= MaxPath
    /\ LET current == path[1] IN
       IF current \notin DOMAIN costs
       THEN /\ path' = <<>>
            /\ err' \in newNotReachableError(costs, goal)
            /\ pc' = "returned"
       ELSE IF costs[current].Prev = nil
       THEN /\ pc' = "returned"
            /\ UNCHANGED <<path, err>>
       ELSE /\ path' = <<costs[current].Prev>> \o path
            /\ UNCHANGED <<pc, err>>
    /\ UNCHANGED <<config, open, popped, costs, origin, calls, run, costs1, goal>>

\* ------------------------------------------------------------- configurations
Pairs == { p \in Nodes \X Nodes : p[1] # p[2] }

\* accumulate rejects the transition (ok = false)
Rejected == -1

Options == {Rejected} \cup 0..MaxWeight

RECURSIVE SetToSeq(_)
SetToSeq(S) ==
    IF S = {} THEN <<>>
    ELSE LET m == CHOOSE x \in S : \A y \in S : x <= y IN <<m>> \o SetToSeq(S \ {m})

RECURSIVE Closure(_, _)
\* The states reached from the set S through the transitions of adm.
Closure(S, adm) ==
    LET T == S \cup { q[2] : q \in { r \in adm : r[1] \in S } }
    IN IF T = S THEN S ELSE Closure(T, adm)

\* The caller's graphs: up to MaxEdges listed transitions, each rejected by
\* accumulate or given a cost 0..MaxWeight. Only the lists edges returns for
\* states the search can reach are filled: edges is never called for another state.
InitSearch ==
    \E E \in SUBSET Pairs :
      /\ Cardinality(E) <= MaxEdges
      /\ \E w \in [E -> Options] :
           /\ \A q \in E : q[1] \in Closure({1}, { r \in E : w[r] # Rejected })
           /\ edges = [a \in Nodes |-> SetToSeq({ b \in Nodes : <<a, b>> \in E })]
           /\ weight = [p \in { q \in E : w[q] # Rejected } |-> w[p]]
    /\ start = 1
    /\ initial = InitialCost
    /\ open = <<>>
    /\ costs = EmptyMap
    /\ pc = "init"
    /\ origin = "dijkstra"

\* Callbacks whose accumulator can decrease the cost (R is a signed integer): a
\* finite acyclic graph, every listed transition leading to a greater key and
\* adding -MaxDecrease..MaxWeight, at least one of them less than 0.
InitNegative ==
    /\ \E E \in SUBSET { q \in Pairs : q[1] < q[2] } :
         /\ Cardinality(E) <= MaxEdges
         /\ \A q \in E : q[1] \in Closure({1}, E)
         /\ \E w \in { f \in [E -> (-MaxDecrease)..MaxWeight] : \E q \in E : f[q] < 0 } :
              /\ edges = [a \in Nodes |-> SetToSeq({ b \in Nodes : <<a, b>> \in E })]
              /\ weight = w
    /\ start = 1
    /\ initial = InitialCost
    /\ open = <<>>
    /\ costs = EmptyMap
    /\ pc = "init"
    /\ origin = "dijkstra"
    /\ run = 1
    /\ popped = NoEntry
    /\ edgeCalls = NoCalls
    /\ accCalls = 0
    /\ accArgs = {}
    /\ pushCalls = 0
    /\ costs1 = EmptyMap
    /\ goal = nil
    /\ path = <<>>
    /\ err = NoError

\* Cost maps a caller may hand to PathResolve without having run Dijkstra: up to
\* MaxSupplied records with any cost 0..MaxWeight and any Prev.
SuppliedMaps ==
    UNION { { [k \in D |-> [Key |-> k, Cost |-> f[k][1], Prev |-> f[k][2]]] :
              f \in [D -> (0..MaxWeight) \X (Nodes \cup {nil})] } :
            D \in { X \in SUBSET Nodes : Cardinality(X) <= MaxSupplied } }

InitSupplied ==
    /\ edges = [a \in Nodes |-> <<>>]
    /\ weight = EmptyMap
    /\ start = 1
    /\ initial = InitialCost
    /\ open = <<>>
    /\ costs \in SuppliedMaps
    /\ pc = "done"
    /\ origin = "supplied"

Init ==
    /\ InitSearch \/ InitSupplied
    /\ run = 1
    /\ popped = NoEntry
    /\ edgeCalls = NoCalls
    /\ accCalls = 0
    /\ accArgs = {}
    /\ pushCalls = 0
    /\ costs1 = EmptyMap
    /\ goal = nil
    /\ path = <<>>
    /\ err = NoError

\* ------------------------------------------------------------- the sample program
\* The text main hands to Text2CostMap, one list of fields per line ("#" stands
\* for the wall character, which is not a number).
GridText ==
    << <<"1", "#", "#", "1", "1", "1", "#", "1">>,
       <<"1", "1", "1", "1", "#", "1", "1", "1">>,
       <<"#", "#", "1", "#", "#", "#", "1", "#">>,
       <<"#", "1", "#", "1", "1", "1", "1", "1">>,
       <<"#", "1", "#", "1", "#", "#", "#", "1">>,
       <<"#", "1", "#", "1", "#", "1", "1", "1">>,
       <<"#", "1", "1", "1", "#", "1", "#", "1">> >>

GridHeight == Len(GridText)

GridWidth == Len(GridText[1])

\* strconv.Atoi on the fields the text holds: value and err == nil.
Atoi(cell) ==
    IF cell = "1" THEN [value |-> 1, ok |-> TRUE] ELSE [value |-> 0, ok |-> FALSE]

\* Pos{Y: y, X: x} as a key: the positions of the grid numbered from 1 row by row
\* (no position is nil).
PosKey(y, x) == y * GridWidth + x + 1

KeyY(k) == (k - 1) \div GridWidth

KeyX(k) == (k - 1) % GridWidth

GridKeys == { PosKey(y, x) : y \in 0..(GridHeight - 1), x \in 0..(GridWidth - 1) }

\* _, ok := costMap[Pos{y, x}]
InCostMap(y, x) ==
    /\ y \in 0..(GridHeight - 1)
    /\ x \in 0..(GridWidth - 1)
    /\ Atoi(GridText[y + 1][x + 1]).ok

\* Text2CostMap: the cost of every position whose field is a number.
costMap ==
    [k \in { q \in GridKeys : InCostMap(KeyY(q), KeyX(q)) } |->
        Atoi(GridText[KeyY(k) + 1][KeyX(k) + 1]).value]

\* Faulty variant of GridEdges: the diagonal below right is a neighbour too.
GridEdgesDiagonal(k) ==
    LET y == KeyY(k)
        x == KeyX(k)
        all == << <<y, x + 1>>, <<y, x - 1>>, <<y + 1, x>>, <<y - 1, x>>,
                  <<y + 1, x + 1>> >>
        kept == SelectSeq(all, LAMBDA to : InCostMap(to[1], to[2]))
    IN [i \in 1..Len(kept) |-> PosKey(kept[i][1], kept[i][2])]

\* Edges of the sample: right, left, down, up, those in costMap only.
GridEdges(k) ==
    LET y == KeyY(k)
        x == KeyX(k)
        all == << <<y, x + 1>>, <<y, x - 1>>, <<y + 1, x>>, <<y - 1, x>> >>
        kept == SelectSeq(all, LAMBDA to : InCostMap(to[1], to[2]))
    IN [i \in 1..Len(kept) |-> PosKey(kept[i][1], kept[i][2])]

\* start := Pos{Y: 0, X: 0}
GridStart == PosKey(0, 0)

\* goal := Pos{Y: 5, X: 5}
GridGoal == PosKey(5, 5)

\* The path the README prints for the sample.
ReadmePath ==
    << PosKey(0, 0), PosKey(1, 0), PosKey(1, 1), PosKey(1, 2), PosKey(1, 3),
       PosKey(0, 3), PosKey(0, 4), PosKey(0, 5), PosKey(1, 5), PosKey(1, 6),
       PosKey(2, 6), PosKey(3, 6), PosKey(3, 7), PosKey(4, 7), PosKey(5, 7),
       PosKey(5, 6), PosKey(5, 5) >>

\* main up to options.CreatePathFinder(start, Cost(0)): the accumulator adds
\* costMap[to] and accepts the positions of costMap.
GridInit ==
    /\ edges = [k \in GridKeys |-> GridEdges(k)]
    /\ weight = [q \in { r \in GridKeys \X GridKeys : r[2] \in DOMAIN costMap } |->
                    costMap[q[2]]]
    /\ start = GridStart
    /\ initial = 0
    /\ open = <<>>
    /\ costs = EmptyMap
    /\ pc = "init"
    /\ origin = "dijkstra"
    /\ run = 1
    /\ popped = NoEntry
    /\ edgeCalls = NoCalls
    /\ accCalls = 0
    /\ accArgs = {}
    /\ pushCalls = 0
    /\ costs1 = EmptyMap
    /\ goal = nil
    /\ path = <<>>
    /\ err = NoError

\* newPriorityNodes(less): an empty frontier, outside any search.
InitHeap ==
    /\ edges = [a \in Nodes |-> <<>>]
    /\ weight = EmptyMap
    /\ start = 1
    /\ initial = InitialCost
    /\ open = <<>>
    /\ costs = EmptyMap
    /\ pc = "heap"
    /\ origin = "heap"
    /\ run = 1
    /\ popped = NoEntry
    /\ edgeCalls = NoCalls
    /\ accCalls = 0
    /\ accArgs = {}
    /\ pushCalls = 0
    /\ costs1 = EmptyMap
    /\ goal = nil
    /\ path = <<>>
    /\ err = NoError

Next ==
    \/ DijkstraCall
    \/ Finalize
    \/ DiscardStale
    \/ Return
    \/ SecondRun
    \/ \E g \in DOMAIN edges : PathResolveCall(g)
    \/ PathResolveStep

Spec == Init /\ [][Next]_vars

HeapNext == Next \/ HeapPush \/ HeapPop

\* The program together with a frontier driven by any sequence of pushes and pops.
HeapSpec == (Init \/ InitHeap) /\ [][HeapNext]_vars

\* The sample program: the search on the grid, run with the heap and run again
\* with every choice among the entries of minimum cost, and findPath(goal).
GridNext ==
    \/ DijkstraCall
    \/ Finalize
    \/ DiscardStale
    \/ Return
    \/ SecondRun
    \/ PathResolveCall(GridGoal)
    \/ PathResolveStep

GridSpec == GridInit /\ [][GridNext]_vars

\* The calls of Dijkstra alone: Dijkstra is synchronous, a call that has been
\* made executes every iteration of its loop and returns.
NextSearch ==
    \/ DijkstraCall
    \/ Finalize
    \/ DiscardStale
    \/ Return
    \/ SecondRun

FairSpec == Init /\ [][NextSearch]_vars /\ WF_vars(NextSearch)

\* One call of Dijkstra, which runs to its return.
NegativeNext ==
    \/ DijkstraCall
    \/ Finalize
    \/ DiscardStale
    \/ Return

\* A call of Dijkstra with callbacks whose accumulator can decrease the cost.
NegativeSpec == InitNegative /\ [][NegativeNext]_vars

TypeOK ==
    /\ pc \in {"init", "loop", "done", "resolve", "returned", "heap"}
    /\ accCalls \in Nat
    /\ pushCalls \in Nat
    /\ edgeCalls \in [Nodes -> Nat]
    /\ DOMAIN costs \subseteq Nodes
    /\ \A i \in 1..Len(open) : open[i].Key \in Nodes

\* ------------------------------------------------------------- PathResolve as a function
RECURSIVE ResolveLoop(_, _, _, _)
\* The for loop of PathResolve on the local path p; the results (path, error) it
\* can return within fuel further iterations.
ResolveLoop(cm, g, p, fuel) ==
    LET current == p[1] IN
    IF current \notin DOMAIN cm
    THEN { <<<<>>, e>> : e \in newNotReachableError(cm, g) }
    ELSE IF cm[current].Prev = nil
    THEN { <<p, NoError>> }
    ELSE IF fuel = 0
    THEN {}
    ELSE ResolveLoop(cm, g, <<cm[current].Prev>> \o p, fuel - 1)

\* The results (path, error) PathResolve(cm, g) can return.
PathResolve(cm, g) ==
    IF g \notin DOMAIN cm
    THEN { <<<<>>, e>> : e \in newNotReachableError(cm, g) }
    ELSE ResolveLoop(cm, g, <<g>>, MaxPath)

\* ------------------------------------------------------------- reference definitions
\* to is one of the candidates edges(from) returns
Listed(from, to) == \E i \in 1..Len(edges[from]) : edges[from][i] = to

\* (from, to) is a transition edges lists and accumulate accepts
Admissible(from, to) == Listed(from, to) /\ accumulator(initial, from, to).ok

AdmissiblePairs == { q \in Nodes \X Nodes : Admissible(q[1], q[2]) }

\* The states a chain of admissible transitions leads to from start
ReachableSet == Closure({start}, AdmissiblePairs)

RECURSIVE WalkCosts(_, _, _, _)
\* Brute force: the costs accumulated at t over every admissible walk of at
\* most steps transitions that is at v with cost agg.
WalkCosts(v, agg, t, steps) ==
    (IF v = t THEN {agg} ELSE {})
    \cup (IF steps = 0 THEN {}
          ELSE UNION { WalkCosts(d, accumulator(agg, v, d).next, t, steps - 1) :
                       d \in { x \in Nodes : Listed(v, x) /\ accumulator(agg, v, x).ok } })

\* The accumulated costs of the admissible walks from start to t
CostsTo(t) == WalkCosts(start, initial, t, NumNodes)

\* The true minimum accumulated cost from start to t (t reachable)
MinCost(t) ==
    LET S == CostsTo(t) IN CHOOSE c \in S : \A d \in S : ~less(d, c)

RECURSIVE Fold(_, _, _)
\* accumulate folded along the consecutive pairs of p from position i on
Fold(p, i, agg) ==
    IF i >= Len(p) THEN [cost |-> agg, ok |-> TRUE]
    ELSE IF ~Listed(p[i], p[i + 1]) THEN [cost |-> agg, ok |-> FALSE]
    ELSE LET acc == accumulator(agg, p[i], p[i + 1])
         IN IF acc.ok THEN Fold(p, i + 1, acc.next) ELSE [cost |-> agg, ok |-> FALSE]

Searched == origin = "dijkstra"

\* ------------------------------------------------------------- claims

\* C1: every state in the cost map Dijkstra returns has the true minimum
\* accumulated cost over all admissible paths from start as its recorded Cost.
C1_CostsAreMinimal ==
    (Searched /\ pc = "done") =>
        \A k \in DOMAIN costs :
            LET S == CostsTo(k)
            IN S # {} /\ costs[k].Cost \in S /\ \A d \in S : ~less(d, costs[k].Cost)

\* A returned cost map with a state that admissible paths reach at several costs.
C1_Witness ==
    /\ Searched /\ pc = "done" /\ run = 1
    /\ \E k \in DOMAIN costs : Cardinality(CostsTo(k)) >= 2 /\ costs[k].Cost = MinCost(k)

\* C2: the path PathResolve returns for a goal of a Dijkstra cost map is optimal:
\* accumulate folded along it from initial is admissible at every step and gives
\* the Cost recorded for goal, the minimum accumulated cost from start to goal.
C2_PathIsOptimal ==
    (Searched /\ pc = "returned" /\ goal \in DOMAIN costs) =>
        /\ err = NoError
        /\ path # <<>>
        /\ LET f == Fold(path, 1, initial)
           IN f.ok /\ f.cost = costs[goal].Cost /\ f.cost = MinCost(goal)

\* A resolved path of three states to a goal that costlier admissible paths reach too.
C2_Witness ==
    /\ Searched /\ pc = "returned" /\ goal \in DOMAIN costs
    /\ Len(path) >= 3
    /\ Cardinality(CostsTo(goal)) >= 2

\* C3: the keys of the returned cost map are exactly start and the states a chain
\* of listed, accepted transitions reaches from start.
C3_KeysAreReachableSet ==
    (Searched /\ pc = "done") => DOMAIN costs = ReachableSet

\* A returned cost map with a reached neighbour and a finalized state's listed
\* neighbour that accumulate rejects and that has no record.
C3_Witness ==
    /\ Searched /\ pc = "done"
    /\ Cardinality(DOMAIN costs) >= 2
    /\ \E a \in DOMAIN costs : \E b \in Nodes \ DOMAIN costs :
         Listed(a, b) /\ ~accumulator(costs[a].Cost, a, b).ok

\* C4: a Dijkstra run over finitely many reachable states ends: the loop is left
\* and the cost map returned.
C4_Terminates == (pc = "loop") ~> (pc = "done")

\* A run that returned on a graph with an admissible cycle and a rejected neighbour.
C4_Witness ==
    /\ Searched /\ pc = "done"
    /\ \E a, b \in DOMAIN costs : a # b /\ Admissible(a, b) /\ Admissible(b, a)
    /\ \E a \in DOMAIN costs : \E b \in Nodes : Listed(a, b) /\ ~Admissible(a, b)

\* C5: for a goal with a record, PathResolve returns without error a path from
\* start to goal whose consecutive pairs (a, b) have b listed by edges(a) and
\* accumulate(recorded cost of a, a, b) accepted.
C5_PathIsAdmissible ==
    (Searched /\ pc = "returned" /\ goal \in DOMAIN costs) =>
        /\ err = NoError
        /\ path # <<>>
        /\ path[1] = start
        /\ path[Len(path)] = goal
        /\ \A i \in 1..(Len(path) - 1) :
             /\ path[i] \in DOMAIN costs
             /\ Listed(path[i], path[i + 1])
             /\ accumulator(costs[path[i]].Cost, path[i], path[i + 1]).ok

\* A path of at least three states was returned.
C5_Witness ==
    /\ Searched /\ pc = "returned" /\ err = NoError
    /\ Len(path) >= 3
    /\ path[1] = start /\ path[Len(path)] = goal

\* C6: PathResolve(costMap, start) on a Dijkstra cost map returns [start], no error.
C6_StartPathIsStart ==
    (Searched /\ goal = start) =>
        /\ pc = "resolve" => (path = <<start>> /\ costs[start].Prev = nil)
        /\ pc = "returned" => (path = <<start>> /\ err = NoError)

\* [start] was returned on a graph with a zero-cost cycle through start.
C6_Witness ==
    /\ Searched /\ pc = "returned" /\ goal = start /\ path = <<start>>
    /\ \E k \in Nodes : /\ Admissible(start, k) /\ Admissible(k, start)
                        /\ accumulator(0, start, k).next = 0
                        /\ accumulator(0, k, start).next = 0

\* C7: for a goal that is no key of the cost map PathResolve returns no path and a
\* NotReachableError.
C7_MissingGoalNotReachable ==
    (pc = "returned" /\ goal \notin DOMAIN costs) =>
        path = <<>> /\ err.kind = "NotReachable"

\* After a search, a goal behind a rejected transition was reported not reachable.
C7_Witness ==
    /\ Searched /\ pc = "returned" /\ goal \notin DOMAIN costs
    /\ err.kind = "NotReachable"
    /\ \E a \in DOMAIN costs : Listed(a, goal) /\ ~Admissible(a, goal)

\* C8: a NotReachableError has StartingUnknown exactly if the supplied cost map
\* is empty, so never for a cost map produced by Dijkstra.
C8_StartingUnknownIffEmpty ==
    (pc = "returned" /\ err.kind = "NotReachable") =>
        /\ err.StartingUnknown <=> (DOMAIN costs = {})
        /\ Searched => ~err.StartingUnknown

\* PathResolve on the empty cost map returned an error with StartingUnknown set.
C8_Witness ==
    /\ pc = "returned" /\ err.kind = "NotReachable"
    /\ err.StartingUnknown
    /\ costs = EmptyMap

\* C9: two runs with the same arguments return cost maps with the same keys and
\* the same Cost for every key, however the frontier breaks ties.
C9_RunsAgreeOnCosts ==
    (Searched /\ run = 2 /\ pc = "done") =>
        /\ DOMAIN costs = DOMAIN costs1
        /\ \A k \in DOMAIN costs : costs[k].Cost = costs1[k].Cost

\* The second run returned a cost map whose Prev links differ from the first's.
C9_Witness ==
    /\ Searched /\ run = 2 /\ pc = "done"
    /\ \E k \in DOMAIN costs \cap DOMAIN costs1 : costs[k].Prev # costs1[k].Prev

\* C10: the cost map of a run starts empty, a loop step adds at most one record
\* and never changes or removes a record.
C10_CostMapAppendOnly ==
    [][ /\ (pc # "loop" /\ pc' = "loop") => costs' = EmptyMap
        /\ pc = "loop" =>
             /\ \A k \in DOMAIN costs : k \in DOMAIN costs' /\ costs'[k] = costs[k]
             /\ Cardinality(DOMAIN costs') <= Cardinality(DOMAIN costs) + 1 ]_vars

\* An entry for an already recorded state was popped with another predecessor
\* and cost than the record, and the record is as it was.
C10_Witness ==
    /\ pc = "loop"
    /\ popped.Key \in DOMAIN costs
    /\ costs[popped.Key].Prev # popped.Prev
    /\ costs[popped.Key].Cost # popped.Cost

\* C11: the start state is seeded without consulting accumulate: right after the
\* seeding the frontier holds exactly (start, nil, initial) and accumulator has not
\* been called; the map a search returns always holds start with Cost = initial
\* and Prev = nil, also when accumulate rejects every transition into start and
\* when edges(start) is empty.
C11_StartSeeded ==
    Searched =>
        /\ (pc = "loop" /\ costs = EmptyMap) =>
              /\ accCalls = 0
              /\ open = <<[Key |-> start, Prev |-> nil, Cost |-> initial]>>
        /\ pc \in {"done", "resolve", "returned"} =>
              /\ start \in DOMAIN costs
              /\ costs[start].Cost = initial
              /\ costs[start].Prev = nil

\* A finished search in which a finalized state lists start and accumulate rejects
\* every listed transition into start.
C11_Witness ==
    /\ Searched
    /\ pc = "done"
    /\ accCalls > 0
    /\ \E k \in DOMAIN costs : Listed(k, start)
    /\ \A k \in Nodes : ~Admissible(k, start)
    /\ start \in DOMAIN costs

\* C12: a path finder runs the search once and every query answers from that
\* run's map: what a query returns is what PathResolve returns on the map, edges
\* has been called exactly once for each key of the map and for no other state,
\* and no step of a query changes the map or calls edges or accumulator.
C12_PathFinderQueries ==
    /\ [](Searched /\ pc = "returned" =>
            /\ <<path, err>> \in PathResolve(costs, goal)
            /\ \A k \in DOMAIN edgeCalls :
                  edgeCalls[k] = IF k \in DOMAIN costs THEN 1 ELSE 0)
    /\ [][Searched /\ pc \in {"done", "resolve", "returned"} /\ run' = run =>
            /\ costs' = costs
            /\ calls' = calls
            /\ pc' \in {"resolve", "returned"}]_vars

\* A query on a searched map has returned a path of several states.
C12_Witness ==
    /\ Searched
    /\ pc = "returned"
    /\ err = NoError
    /\ Len(path) >= 2
    /\ accCalls > 0

\* C13: on the README grid, with start (0,0), initial cost 0 and goal (5,5), the
\* path finder returns no error and exactly the 17-state path the README prints,
\* whichever entry of minimum cost the frontier yields first.
C13_SamplePath ==
    (pc = "returned" /\ goal = GridGoal) => (err = NoError /\ path = ReadmePath)

\* The query for (5,5) has returned after a search that chose freely among the
\* entries of minimum cost.
C13_Witness ==
    /\ start = GridStart
    /\ run = 2
    /\ pc = "returned"
    /\ goal = GridGoal
    /\ Len(path) = 17

RECURSIVE Dangles(_, _, _)
\* Following Prev from k in cm reaches, within fuel links, a key without a record.
Dangles(cm, k, fuel) ==
    IF k \notin DOMAIN cm THEN TRUE
    ELSE IF cm[k].Prev = nil \/ fuel = 0 THEN FALSE
    ELSE Dangles(cm, cm[k].Prev, fuel - 1)

\* C14: when the goal has a record but its chain of Prev links reaches a key the
\* map does not hold, PathResolve returns no path and a NotReachableError whose
\* Goal is the requested goal.
C14_DanglingPrevNotReachable ==
    (pc = "returned" /\ goal \in DOMAIN costs /\ Dangles(costs, goal, Cardinality(DOMAIN costs))) =>
        /\ path = <<>>
        /\ err.kind = "NotReachable"
        /\ err.Goal = goal

\* PathResolve has returned on a supplied map in which the goal's Prev has a record
\* whose own Prev has none.
C14_Witness ==
    /\ origin = "supplied"
    /\ pc = "returned"
    /\ goal \in DOMAIN costs
    /\ costs[goal].Prev \in DOMAIN costs
    /\ costs[goal].Prev # goal
    /\ Dangles(costs, goal, Cardinality(DOMAIN costs))

\* C15: a NotReachableError built on a map that is not empty carries that map,
\* the requested goal, StartingUnknown = false and as Start a key of the map
\* such that no key has a smaller Cost under less. (When several records have the
\* minimum cost Start can be another key than the start of the search:
\* C15_Witness.)
C15_ErrorStartIsMinimal ==
    (pc = "returned" /\ err.kind = "NotReachable" /\ costs # EmptyMap) =>
        /\ err.Costs = costs
        /\ err.Goal = goal
        /\ ~err.StartingUnknown
        /\ err.Start \in DOMAIN costs
        /\ \A k \in DOMAIN costs : ~less(costs[k].Cost, costs[err.Start].Cost)

\* A query on a searched map has failed and the error names as Start a state
\* that is not the start of the search.
C15_Witness ==
    /\ Searched
    /\ pc = "returned"
    /\ err.kind = "NotReachable"
    /\ err.Start \in DOMAIN costs
    /\ err.Start # start
    /\ costs[err.Start].Cost = costs[start].Cost

\* edges and accumulate admit a cycle of transitions: two states, each the
\* other's admissible neighbour.
CyclicAdmissibility ==
    \E a, b \in DOMAIN edges : a # b /\ Admissible(a, b) /\ Admissible(b, a)

RECURSIVE PendingWork(_)
\* For the states of S: one finalization each and one push for each listed neighbour.
PendingWork(S) ==
    IF S = {} THEN 0
    ELSE LET k == CHOOSE x \in S : TRUE
         IN Len(edges[k]) + 1 + PendingWork(S \ {k})

\* A bound on the loop iterations still to come: the entries of the frontier and
\* the work pending for the states without a record.
Remaining == Len(open) + PendingWork(DOMAIN edges \ DOMAIN costs)

\* C16 as stated: with cyclic admissibility the search never returns.
C16_CyclicNeverReturns ==
    (Searched /\ CyclicAdmissibility) => pc \in {"init", "loop"}

\* C16 (amended): with cyclic admissibility among finitely many states the search
\* terminates: every iteration of the loop strictly decreases Remaining, which
\* is never negative, and no state is expanded twice in a run.
C16_CyclicTerminates ==
    /\ [](CyclicAdmissibility => \A k \in DOMAIN edgeCalls : edgeCalls[k] <= 1)
    /\ [][(CyclicAdmissibility /\ pc = "loop" /\ pc' = "loop") =>
            (Remaining' < Remaining /\ Remaining' >= 0)]_vars

\* A search has returned with both states of an admissible cycle recorded.
C16_Witness ==
    /\ Searched
    /\ pc = "done"
    /\ \E a, b \in DOMAIN costs : a # b /\ Admissible(a, b) /\ Admissible(b, a)

\* p holds no state twice.
NoRepeat(p) == \A i, j \in 1..Len(p) : i # j => p[i] # p[j]

\* C17: at every step of a search and in the map it returns the Prev links form a
\* tree rooted at start: start is the only record with Prev = nil, the Prev of
\* every other record has a record, PathResolve from every key returns without
\* error a path that begins at start, repeats no state and takes fewer links
\* than there are records; and a record is only ever added with a Prev that had
\* its record before (or, for start, with Prev = nil into the empty map).
C17_PrevLinksFormTree ==
    /\ [](Searched =>
            \A k \in DOMAIN costs :
                /\ (costs[k].Prev = nil) <=> (k = start)
                /\ k # start => costs[k].Prev \in DOMAIN costs
                /\ LET results == PathResolve(costs, k)
                   IN /\ Cardinality(results) = 1
                      /\ \A r \in results :
                            /\ r[2] = NoError
                            /\ r[1][1] = start
                            /\ r[1][Len(r[1])] = k
                            /\ NoRepeat(r[1])
                            /\ Len(r[1]) - 1 < Cardinality(DOMAIN costs))
    /\ [][Searched =>
            \A k \in DOMAIN costs' \ DOMAIN costs :
                \/ k = start /\ costs'[k].Prev = nil /\ costs = EmptyMap
                \/ costs'[k].Prev \in DOMAIN costs]_vars
    /\ [](Searched /\ pc = "returned" /\ goal \in DOMAIN costs =>
            err = NoError /\ NoRepeat(path) /\ path[1] = start)

\* A query on a searched map of three records has returned the path through all
\* three.
C17_Witness ==
    /\ Searched
    /\ pc = "returned"
    /\ err = NoError
    /\ Cardinality(DOMAIN costs) = 3
    /\ Len(path) = 3

Count(nodes, e) == Cardinality({ i \in 1..Len(nodes) : nodes[i] = e })

\* C19: every pop, by the search loop or after any sequence of pushes and pops,
\* happens on a frontier that is not empty and returns an entry of the frontier
\* such that no entry of the frontier has a cost less (under less) than its
\* cost; a pop outside the search leaves the other entries in the frontier.
C19_PopReturnsMinimum ==
    [][(HeapPop \/ Finalize \/ DiscardStale) =>
        /\ Len(open) > 0
        /\ \E i \in 1..Len(open) : open[i] = popped'
        /\ \A i \in 1..Len(open) : ~less(open[i].Cost, popped'.Cost)
        /\ HeapPop =>
              \A i \in 1..Len(open) :
                  Count(open', open[i]) =
                      Count(open, open[i]) - (IF open[i] = popped' THEN 1 ELSE 0)]_vars

\* A pop has just returned the entry of least cost from a frontier that was full
\* and now holds, in its last level, an entry cheaper than one of the level above.
C19_Witness ==
    /\ pc = "heap"
    /\ Len(open) = MaxHeap - 1
    /\ popped # NoEntry
    /\ \A i \in 1..Len(open) : ~less(open[i].Cost, popped.Cost)
    /\ less(open[Len(open)].Cost, open[2].Cost) \/ less(open[Len(open)].Cost, open[3].Cost)

\* The entry the expansion of current at cost pushes for its i-th listed neighbour.
PushedEntry(current, cost, i) ==
    [Key |-> edges[current][i], Prev |-> current,
     Cost |-> accumulator(cost, current, edges[current][i]).next]

\* The positions of the neighbours of current that accumulator accepts.
Accepted(current, cost) ==
    { i \in 1..Len(edges[current]) : accumulator(cost, current, edges[current][i]).ok }

\* C20: the finalization of a state pushes exactly one entry (candidate, current,
\* newCost) for each listed neighbour that accumulator accepts and nothing else,
\* whatever records and pending entries there are: the frontier after the step is
\* the frontier before it without the popped entry and with those entries, also
\* those for candidates that have a record and for candidates that have an entry
\* in the frontier already.
C20_PushesEveryAcceptedNeighbour ==
    [][Finalize =>
        LET current == popped'.Key
            cost == popped'.Cost
            pushed == { PushedEntry(current, cost, i) : i \in Accepted(current, cost) }
            entries == { open[i] : i \in 1..Len(open) }
                       \cup { open'[i] : i \in 1..Len(open') } \cup pushed
        IN /\ Len(open') = Len(open) - 1 + Cardinality(Accepted(current, cost))
           /\ \A e \in entries :
                 Count(open', e) =
                     Count(open, e) - (IF e = popped' THEN 1 ELSE 0)
                     + Cardinality({ i \in Accepted(current, cost) :
                                       PushedEntry(current, cost, i) = e })]_vars

\* The state just finalized has pushed an entry for a neighbour that already had
\* a record.
C20_Witness ==
    /\ Searched
    /\ pc = "loop"
    /\ popped.Key \in DOMAIN costs
    /\ costs[popped.Key].Prev = popped.Prev
    /\ \E i \in 1..Len(open) :
          /\ open[i].Prev = popped.Key
          /\ open[i].Key \in DOMAIN costs
          /\ open[i].Key # popped.Key

\* The frontier holds two entries for one state, pushed by two finalized states.
C20_TwoEntriesForOneState ==
    /\ Searched
    /\ pc = "loop"
    /\ \E i, j \in 1..Len(open) :
          /\ i # j
          /\ open[i].Key = open[j].Key
          /\ open[i].Prev # open[j].Prev

\* C21: with an accumulator that can decrease the cost, on a finite acyclic
\* configuration, Dijkstra terminates (the loop can always take its next step
\* or return, and every iteration strictly decreases Remaining, which is never
\* negative) and returns, with no error of any kind, a map that holds
\* exactly the reachable states, each with the cost of some admissible walk; a
\* record stays as first written also when an entry of less cost is popped for it
\* later. (That the recorded Cost of a state can then be greater than its true
\* minimum: C21_Witness.)
C21_NegativeCostsStillReturn ==
    /\ [](pc = "loop" => ENABLED (Finalize \/ DiscardStale \/ Return))
    /\ [][(pc = "loop" /\ pc' = "loop") =>
            (Remaining' < Remaining /\ Remaining' >= 0)]_vars
    /\ [][\A k \in DOMAIN costs : k \in DOMAIN costs' /\ costs'[k] = costs[k]]_vars
    /\ [](pc = "done" =>
            /\ err = NoError
            /\ DOMAIN costs = ReachableSet
            /\ \A k \in DOMAIN costs : costs[k].Cost \in CostsTo(k))

\* The search has returned a map in which the Cost recorded for a state is
\* greater than the true minimum cost of that state.
C21_Witness ==
    /\ pc = "done"
    /\ \E q \in DOMAIN weight : weight[q] < 0
    /\ \E k \in DOMAIN costs : less(MinCost(k), costs[k].Cost)

\* C22: with an accumulator that never decreases the cost, states are finalized
\* in non-decreasing cost order: a record added to the map never has a Cost less
\* (under less) than the Cost of a record the map already holds, and no entry of
\* the frontier ever has a cost less than the Cost of a record, that of the most
\* recently finalized state included.
C22_FinalizedInCostOrder ==
    /\ [][Searched =>
            \A k \in DOMAIN costs' \ DOMAIN costs :
                \A j \in DOMAIN costs : ~less(costs'[k].Cost, costs[j].Cost)]_vars
    /\ [](Searched /\ pc = "loop" =>
            \A i \in 1..Len(open) :
                /\ \A j \in DOMAIN costs : ~less(open[i].Cost, costs[j].Cost)
                /\ popped.Key \in DOMAIN costs => ~less(open[i].Cost, popped.Cost))

\* A state has just been finalized at a cost greater than that of an earlier
\* record, and the frontier still holds entries.
C22_Witness ==
    /\ Searched
    /\ pc = "loop"
    /\ popped.Key \in DOMAIN costs
    /\ costs[popped.Key].Prev = popped.Prev
    /\ costs[popped.Key].Cost = popped.Cost
    /\ \E j \in DOMAIN costs : less(costs[j].Cost, popped.Cost)
    /\ Len(open) >= 2

RECURSIVE ListedCount(_)
\* The number of neighbours edges returns, summed over the states of S.
ListedCount(S) ==
    IF S = {} THEN 0
    ELSE LET k == CHOOSE x \in S : TRUE
         IN Len(edges[k]) + ListedCount(S \ {k})

\* C23: in one run edges(s) has been called exactly once for every state s with
\* a record and for no other state, and not at all by an iteration that
\* discards a stale entry; accumulator is called only at the step that finalizes
\* s, as accumulator(recorded cost of s, s, d) for the d of edges(s), once for
\* each; and the calls of Push number at most 1 plus the neighbours edges listed
\* for the finalized states.
C23_CallbackCalls ==
    /\ [](Searched =>
            /\ \A k \in DOMAIN edgeCalls :
                  edgeCalls[k] = IF k \in DOMAIN costs THEN 1 ELSE 0
            /\ accArgs = { <<costs[q[1]].Cost, q[1], q[2]>> :
                             q \in { r \in (DOMAIN costs) \X (DOMAIN edges) : Listed(r[1], r[2]) } }
            /\ accCalls = ListedCount(DOMAIN costs)
            /\ pushCalls <= 1 + ListedCount(DOMAIN costs))
    /\ [][DiscardStale => calls' = calls]_vars
    /\ [][(Searched /\ run' = run /\ <<edgeCalls, accCalls, accArgs>>' # <<edgeCalls, accCalls, accArgs>>) =>
            /\ Finalize
            /\ popped'.Key \notin DOMAIN costs
            /\ edgeCalls' = [edgeCalls EXCEPT ![popped'.Key] = 1]
            /\ \A a \in accArgs' \ accArgs : a[1] = popped'.Cost /\ a[2] = popped'.Key]_vars

\* The loop has just discarded a stale entry after a run of several calls of
\* accumulator and of Push.
C23_Witness ==
    /\ Searched
    /\ pc = "loop"
    /\ popped.Key \in DOMAIN costs
    /\ costs[popped.Key].Prev # popped.Prev
    /\ accCalls >= 2
    /\ pushCalls >= 3
====
